---- MODULE Spec2Model ----
(***************************************************************************)
(* EuiDataGridHeaderCell (src/components/datagrid/data_grid_header_cell.tsx)*)
(* as a state machine: the component's React state and props, the DOM of   *)
(* the cell (container, interactive descendants, active element, the       *)
(* listeners on the container), the passive effects still to run and the   *)
(* requestAnimationFrame callbacks still to fire.                          *)
(*                                                                         *)
(* Scheduling: an event handler runs to completion, focus()/blur() dispatch *)
(* focusout/focusin synchronously to the listeners registered at that      *)
(* moment, and the passive effects of a commit (RunEffects) run before the *)
(* next external event or animation-frame callback is handled.             *)
(***************************************************************************)
EXTENDS Integers, Sequences, FiniteSets, TLC

\* ---------------------------------------------------------------- bounds
MaxKids == 2
MaxCols == 2
MaxFrames == 2
MaxSort == 2

\* ------------------------------------------------------------- constants
HeaderRow == -1
Container == 0
Outside == -1
Reachable == 0
Unreachable == -1

Cols == 0 .. (MaxCols - 1)
Rows == {HeaderRow, 0}
NoCell == << >>
FocusTargets == {NoCell} \cup (Cols \X Rows)
Callbacks == {0, 1}

VARIABLES
  mounted,              \* headerRef.current is the container of a live instance
  nKids,                \* interactive descendants rendered inside the cell
  kidTab,               \* tabIndex attribute of each descendant
  kidManaged,           \* data-euigrid-tab-managed attribute of each descendant
  containerTab,         \* tabIndex attribute of the container, set by render
  active,               \* document.activeElement: Container, a descendant, Outside
  isCellEntered,        \* useState(false): FALSE is CELL mode, TRUE is CONTENT mode
  focusedCell,          \* prop: the grid's logical focus target
  index,                \* prop: this cell's column index
  headerIsInteractive,  \* prop
  setFocusedCell,       \* prop: identity of the callback
  effect1Pending,       \* the [isCellEntered] effect has to run
  effect2Pending,       \* the [headerIsInteractive, isFocused, ...] effect has to run
  listeners,            \* listeners registered on the container, with what they captured
  frames,               \* requestAnimationFrame callbacks not yet fired, oldest first
  trigger,              \* the last event that was not an effect run, with the state it met
  out,                  \* what the last step did: requests to the grid, events, warnings
  columnId,             \* prop: column.id
  sorting,              \* prop: present or not, and its columns [id, direction]
  rendered,             \* the render of lines 48-77 and 216-239 has produced its output
  ariaProps,            \* the aria attributes spread on the container
  screenReader          \* the EuiScreenReaderOnly elements rendered inside the cell

renderVars == << columnId, sorting, rendered, ariaProps, screenReader >>

vars == << mounted, nKids, kidTab, kidManaged, containerTab, active,
           isCellEntered, focusedCell, index, headerIsInteractive, setFocusedCell,
           effect1Pending, effect2Pending, listeners, frames, trigger, out,
           renderVars >>

Kids == 1 .. nKids

\* line 90-91
IsFocusedFor(fc, idx) == fc # NoCell /\ fc[1] = idx /\ fc[2] = HeaderRow

IsFocused == IsFocusedFor(focusedCell, index)

\* line 221
RenderTabIndex(fc, idx) == IF IsFocusedFor(fc, idx) THEN Reachable ELSE Unreachable

\* What a step reports: its name, the setFocusedCell calls it made, the focusin
\* events dispatched inside the cell and those a listener handled, the
\* console.warn calls and whether a callback threw.
NoOut(step) ==
  [step |-> step, requests |-> << >>, focusIns |-> 0, handled |-> 0, warned |-> 0,
   threw |-> FALSE]

\* The part of the state that the component's code reads and writes while it runs.
Cur(step) ==
  [kidTab |-> kidTab, kidManaged |-> kidManaged, active |-> active,
   entered |-> isCellEntered, e1 |-> effect1Pending, listeners |-> listeners,
   frames |-> frames, out |-> NoOut(step)]

Commit(s) ==
  /\ kidTab' = s.kidTab
  /\ kidManaged' = s.kidManaged
  /\ active' = s.active
  /\ isCellEntered' = s.entered
  /\ effect1Pending' = s.e1
  /\ listeners' = s.listeners
  /\ frames' = s.frames
  /\ out' = s.out

\* ------------------------------------------------------- React primitives

\* setIsCellEntered(v), line 92: a changed value re-renders and makes the
\* [isCellEntered] effect due; the same value bails out.
SetIsCellEntered(s, v) ==
  IF s.entered = v THEN s ELSE [s EXCEPT !.entered = v, !.e1 = TRUE]

\* requestAnimationFrame(cb), lines 152 and 164. The callback reads headerRef of
\* the instance that scheduled it: ref is TRUE while that instance is mounted.
RequestAnimationFrame(s, kind) ==
  [s EXCEPT !.frames = Append(@, [kind |-> kind, ref |-> TRUE])]

\* ------------------------------------------------------------- listeners

\* Mutant of onFocusIn: the request names a body row instead of the header row.
OnFocusIn_WrongRow(s, l) ==
  LET s1 == [s EXCEPT !.out.handled = @ + 1]
  IN  IF l.hi = FALSE
      THEN RequestAnimationFrame(s1, "blur")
      ELSE [s1 EXCEPT !.out.requests =
                        Append(@, [cell |-> << l.index, 0 >>, cb |-> l.cb])]

\* onFocusIn, lines 149-159, as the closure l that captured index,
\* headerIsInteractive and setFocusedCell.
OnFocusIn(s, l) ==
  LET s1 == [s EXCEPT !.out.handled = @ + 1]
  IN  IF l.hi = FALSE
      THEN RequestAnimationFrame(s1, "blur")
      ELSE [s1 EXCEPT !.out.requests =
                        Append(@, [cell |-> << l.index, HeaderRow >>, cb |-> l.cb])]

\* Mutant of onFocusOut: the mode is reset at once, without waiting for the
\* next frame.
OnFocusOut_Synchronous(s, l) == SetIsCellEntered(s, FALSE)

\* onFocusOut, lines 162-171: only schedules the check.
OnFocusOut(s, l) == RequestAnimationFrame(s, "check")

\* Dispatch of one bubbling event to the listeners of its type that are
\* registered on the container when it is dispatched.
RECURSIVE RunFocusIn(_, _)
RunFocusIn(s, ls) ==
  IF ls = {} THEN s
  ELSE LET l == CHOOSE x \in ls : TRUE
       IN  RunFocusIn(OnFocusIn(s, l), ls \ {l})

RECURSIVE RunFocusOut(_, _)
RunFocusOut(s, ls) ==
  IF ls = {} THEN s
  ELSE LET l == CHOOSE x \in ls : TRUE
       IN  RunFocusOut(OnFocusOut(s, l), ls \ {l})

ListenersOf(s, type) == {l \in s.listeners : l.type = type}

FocusInEvent(s) ==
  RunFocusIn([s EXCEPT !.out.focusIns = @ + 1], ListenersOf(s, "focusin"))

FocusOutEvent(s) == RunFocusOut(s, ListenersOf(s, "focusout"))

\* element.focus() (lines 125, 142, 184, 195) and a focus move by the user:
\* focusout bubbles from the element losing focus when it is inside the cell,
\* then focusin from the element gaining it when that one is inside the cell.
Focus(s, el) ==
  IF s.active = el THEN s
  ELSE LET s1 == IF s.active # Outside THEN FocusOutEvent(s) ELSE s
           s2 == [s1 EXCEPT !.active = el]
       IN  IF el # Outside THEN FocusInEvent(s2) ELSE s2

\* element.blur(), line 152: only the active element loses focus.
Blur(s, el) == IF s.active = el THEN Focus(s, Outside) ELSE s

\* Mutant of onKeyUp: Escape resets the mode and leaves DOM focus where it is.
OnKeyUp_EscapeKeepsFocus(s, l, key) ==
  CASE key = "ENTER" -> SetIsCellEntered(s, TRUE)
    [] key = "ESCAPE" -> SetIsCellEntered(s, FALSE)
    [] key = "F2" ->
         IF s.active = Container
         THEN SetIsCellEntered(s, TRUE)
         ELSE Focus(SetIsCellEntered(s, FALSE), Container)
    [] OTHER -> s

\* onKeyUp, lines 173-200.
OnKeyUp(s, l, key) ==
  CASE key = "ENTER" -> SetIsCellEntered(s, TRUE)
    [] key = "ESCAPE" -> Focus(SetIsCellEntered(s, FALSE), Container)
    [] key = "F2" ->
         IF s.active = Container
         THEN SetIsCellEntered(s, TRUE)
         ELSE Focus(SetIsCellEntered(s, FALSE), Container)
    [] OTHER -> s

RECURSIVE RunKeyUp(_, _, _)
RunKeyUp(s, ls, key) ==
  IF ls = {} THEN s
  ELSE LET l == CHOOSE x \in ls : TRUE
       IN  RunKeyUp(OnKeyUp(s, l, key), ls \ {l}, key)

\* ------------------------------------------------ tab-reachability control

\* tabbable(headerRef.current), lines 106 and 123: the descendants with a
\* non-negative tab order, in document order (the container is not included).
Tabbables(s) ==
  SelectSeq([i \in 1 .. nKids |-> i], LAMBDA i : s.kidTab[i] >= 0)

\* querySelectorAll('[data-euigrid-tab-managed]'), lines 97 and 136.
TabManaged(s) == {i \in 1 .. nKids : s.kidManaged[i]}

\* enableInteractives, lines 96-103.
EnableInteractives(s) ==
  [s EXCEPT !.kidTab =
     [i \in 1 .. nKids |-> IF i \in TabManaged(s) THEN Reachable ELSE s.kidTab[i]]]

\* Mutant of disableInteractives: the first tabbable descendant wins and the
\* others are left as they are.
DisableInteractives_FirstOnly(s) ==
  LET tababbles == Tabbables(s)
  IN  IF Len(tababbles) = 0 THEN s
      ELSE [s EXCEPT !.kidManaged[tababbles[1]] = TRUE,
                     !.kidTab[tababbles[1]] = Unreachable]

\* Mutant of disableInteractives: more than one tabbable descendant is an
\* error, the warning is given and nothing is marked.
DisableInteractives_AbortOnWarning(s) ==
  LET tababbles == Tabbables(s)
      found == {tababbles[k] : k \in 1 .. Len(tababbles)}
  IN  IF Len(tababbles) > 1
      THEN [s EXCEPT !.out.warned = @ + 1]
      ELSE [s EXCEPT
              !.kidManaged = [i \in 1 .. nKids |-> IF i \in found THEN TRUE ELSE s.kidManaged[i]],
              !.kidTab = [i \in 1 .. nKids |-> IF i \in found THEN Unreachable ELSE s.kidTab[i]]]

\* Mutant of disableInteractives: the tab order is set and the mark forgotten.
DisableInteractives_NoMark(s) ==
  LET tababbles == Tabbables(s)
      found == {tababbles[k] : k \in 1 .. Len(tababbles)}
  IN  [s EXCEPT
         !.out.warned = IF Len(tababbles) > 1 THEN @ + 1 ELSE @,
         !.kidTab = [i \in 1 .. nKids |-> IF i \in found THEN Unreachable ELSE s.kidTab[i]]]

\* disableInteractives, lines 105-119.
DisableInteractives(s) ==
  LET tababbles == Tabbables(s)
      found == {tababbles[k] : k \in 1 .. Len(tababbles)}
  IN  [s EXCEPT
         !.out.warned = IF Len(tababbles) > 1 THEN @ + 1 ELSE @,
         !.kidManaged = [i \in 1 .. nKids |-> IF i \in found THEN TRUE ELSE s.kidManaged[i]],
         !.kidTab = [i \in 1 .. nKids |-> IF i \in found THEN Unreachable ELSE s.kidTab[i]]]

\* Mutant of the [isCellEntered] effect: the last tabbable descendant is focused.
Effect1_FocusLast(s) ==
  IF s.entered
  THEN LET s1 == EnableInteractives(s)
           tabbables == Tabbables(s1)
       IN  IF Len(tabbables) > 0 THEN Focus(s1, tabbables[Len(tabbables)]) ELSE s1
  ELSE DisableInteractives(s)

\* The [isCellEntered] effect, lines 94-131 (headerRef.current is set).
Effect1(s) ==
  IF s.entered
  THEN LET s1 == EnableInteractives(s)
           tabbables == Tabbables(s1)
       IN  IF Len(tabbables) > 0 THEN Focus(s1, tabbables[1]) ELSE s1
  ELSE DisableInteractives(s)

\* addEventListener, lines 202-206: the three handlers of this effect run.
AddListeners(s) ==
  [s EXCEPT !.listeners = @ \cup
     {[type |-> t, index |-> index, hi |-> headerIsInteractive, cb |-> setFocusedCell] :
        t \in {"focusin", "focusout", "keyup"}}]

\* Mutant of the cleanup: the keyup handler is left on the container.
RemoveListeners_KeepsKeyUp(s) ==
  [s EXCEPT !.listeners = {l \in @ : l.type = "keyup"}]

\* The cleanup returned at lines 207-212: removes the handlers the previous
\* run of the effect added (nothing else adds listeners to the container).
RemoveListeners(s) == [s EXCEPT !.listeners = {}]

\* Mutant of the focus effect: any number of tab-managed descendants above
\* zero enters CONTENT mode.
Effect2_AtLeastOne(s) ==
  LET s1 == IF IsFocused
            THEN IF Cardinality(TabManaged(s)) >= 1
                 THEN SetIsCellEntered(s, TRUE)
                 ELSE Focus(s, Container)
            ELSE SetIsCellEntered(s, FALSE)
  IN  AddListeners(s1)

\* Mutant of the focus effect: losing the logical focus leaves the mode alone.
Effect2_NoReset(s) ==
  LET s1 == IF IsFocused
            THEN IF Cardinality(TabManaged(s)) = 1
                 THEN SetIsCellEntered(s, TRUE)
                 ELSE Focus(s, Container)
            ELSE s
  IN  AddListeners(s1)

\* The focus effect, lines 133-214 (headerRef.current is set).
Effect2(s) ==
  LET s1 == IF IsFocused
            THEN IF Cardinality(TabManaged(s)) = 1
                 THEN SetIsCellEntered(s, TRUE)
                 ELSE Focus(s, Container)
            ELSE SetIsCellEntered(s, FALSE)
  IN  AddListeners(s1)

\* ---------------------------------------------------------- aria rendering

ColumnIds == {"age", "name"}
Directions == {"asc", "desc", "custom"}
HtmlIds == {"i1", "i2"}

NoSorting == [present |-> FALSE, columns |-> << >>]

RECURSIVE SeqsUpTo(_, _)
SeqsUpTo(S, n) ==
  IF n = 0 THEN {<< >>}
  ELSE LET shorter == SeqsUpTo(S, n - 1)
       IN  shorter \cup {Append(q, x) : q \in shorter, x \in S}

\* props.sorting, line 38: absent, or a sequence of {id, direction}.
Sortings ==
  {NoSorting} \cup
  {[present |-> TRUE, columns |-> q] :
     q \in SeqsUpTo([id : ColumnIds, direction : Directions], MaxSort)}

\* line 57
SortedColumnIds(srt) == {srt.columns[k].id : k \in 1 .. Len(srt.columns)}

\* lines 60-67
SortValue(sortDirection) ==
  IF sortDirection = "asc" THEN "ascending"
  ELSE IF sortDirection = "desc" THEN "descending"
  ELSE "other"

\* lines 71-73: map each column to its phrase and join with ' then '.
RECURSIVE JoinThen(_)
JoinThen(cols) ==
  IF Len(cols) = 0 THEN ""
  ELSE LET phrase == "Sorted by " \o cols[1].id \o " " \o cols[1].direction
       IN  IF Len(cols) = 1 THEN phrase
           ELSE phrase \o " then " \o JoinThen(Tail(cols))

SortString(srt) == JoinThen(srt.columns)

NoAria == [k \in {} |-> ""]

\* Mutant of ariaProps: the direction of the first sorted column is exposed
\* whenever this column is sorted, whatever the number of sorted columns.
AriaProps_AnyLength(srt, id, newId) ==
  IF srt.present /\ id \in SortedColumnIds(srt)
  THEN [k \in {"aria-sort"} |-> SortValue(srt.columns[1].direction)]
  ELSE NoAria

\* ariaProps, lines 48-77; newId is what htmlIdGenerator()() returns.
AriaProps(srt, id, newId) ==
  IF srt.present
  THEN IF Len(srt.columns) = 1 /\ id \in SortedColumnIds(srt)
       THEN [k \in {"aria-sort"} |-> SortValue(srt.columns[1].direction)]
       ELSE IF Len(srt.columns) >= 2 /\ id \in SortedColumnIds(srt)
            THEN [k \in {"aria-describedby"} |-> newId]
            ELSE NoAria
  ELSE NoAria

\* screenReaderId and sortString, lines 53-54 and 70-75: undefined unless the
\* second branch assigned them.
Described(srt, id) ==
  srt.present /\ ~(Len(srt.columns) = 1 /\ id \in SortedColumnIds(srt))
              /\ Len(srt.columns) >= 2 /\ id \in SortedColumnIds(srt)

\* lines 234-238: the off-screen element, <div id={screenReaderId}>{sortString}</div>.
ScreenReaderOnly(srt, id, newId) ==
  IF srt.present /\ Len(srt.columns) >= 2
  THEN << [id |-> IF Described(srt, id) THEN newId ELSE "undefined",
           text |-> IF Described(srt, id) THEN SortString(srt) ELSE ""] >>
  ELSE << >>

\* The focus machine below is checked for a cell without sorting.
NoRender ==
  /\ columnId = "age"
  /\ sorting = NoSorting
  /\ rendered = FALSE
  /\ ariaProps = NoAria
  /\ screenReader = << >>

\* ---------------------------------------------------------------- actions

Settled == ~effect1Pending /\ ~effect2Pending

\* An external event is taken when the effects of the last commit have run and
\* fewer than MaxFrames animation-frame callbacks are waiting.
Idle == mounted /\ Settled /\ Len(frames) < MaxFrames

Met(ev) == [ev |-> ev, entered |-> isCellEntered, active |-> active, focused |-> IsFocused]

Init ==
  /\ mounted = FALSE
  /\ nKids = 0
  /\ kidTab = << >>
  /\ kidManaged = << >>
  /\ containerTab = Unreachable
  /\ active = Outside
  /\ isCellEntered = FALSE
  /\ focusedCell \in FocusTargets
  /\ index \in Cols
  /\ headerIsInteractive \in BOOLEAN
  /\ setFocusedCell = 0
  /\ effect1Pending = FALSE
  /\ effect2Pending = FALSE
  /\ listeners = {}
  /\ frames = << >>
  /\ trigger = [ev |-> "Init", entered |-> FALSE, active |-> Outside, focused |-> FALSE]
  /\ out = NoOut("Init")
  /\ NoRender

\* First render and commit of a new instance, lines 89-92 and 216-239: state
\* false, the descendants as rendered by the column's display, both effects due.
Mount ==
  /\ ~mounted
  /\ \E n \in 0 .. MaxKids :
       /\ nKids' = n
       /\ kidTab' = [i \in 1 .. n |-> Reachable]
       /\ kidManaged' = [i \in 1 .. n |-> FALSE]
  /\ mounted' = TRUE
  /\ containerTab' = RenderTabIndex(focusedCell, index)
  /\ isCellEntered' = FALSE
  /\ effect1Pending' = TRUE
  /\ effect2Pending' = TRUE
  /\ trigger' = [ev |-> "Mount", entered |-> FALSE, active |-> active, focused |-> FALSE]
  /\ out' = NoOut("Mount")
  /\ UNCHANGED << active, focusedCell, index, headerIsInteractive, setFocusedCell,
                  listeners, frames >>
  /\ UNCHANGED renderVars

\* Unmount: the effect cleanup (lines 207-212) runs, the ref is cleared (the
\* callbacks still waiting will read null) and the subtree leaves the document.
Unmount ==
  /\ Idle
  /\ mounted' = FALSE
  /\ listeners' = RemoveListeners(Cur("Unmount")).listeners
  /\ active' = Outside
  /\ nKids' = 0
  /\ kidTab' = << >>
  /\ kidManaged' = << >>
  /\ containerTab' = Unreachable
  /\ isCellEntered' = FALSE
  /\ trigger' = Met("Unmount")
  /\ out' = NoOut("Unmount")
  /\ frames' = [k \in DOMAIN frames |-> [frames[k] EXCEPT !.ref = FALSE]]
  /\ UNCHANGED << focusedCell, index, headerIsInteractive, setFocusedCell,
                  effect1Pending, effect2Pending >>
  /\ UNCHANGED renderVars

\* The passive effects of the last commit: the cleanups of the effects whose
\* dependencies changed, then those effects in the order they are declared.
RunEffects ==
  /\ mounted
  /\ ~Settled
  /\ LET s0 == [Cur("RunEffects") EXCEPT !.e1 = FALSE]
         s1 == IF effect2Pending THEN RemoveListeners(s0) ELSE s0
         s2 == IF effect1Pending THEN Effect1(s1) ELSE s1
         s3 == IF effect2Pending THEN Effect2(s2) ELSE s2
     IN  Commit(s3)
  /\ effect2Pending' = FALSE
  /\ UNCHANGED << mounted, nKids, containerTab, focusedCell, index,
                  headerIsInteractive, setFocusedCell, trigger >>
  /\ UNCHANGED renderVars

\* The user moves DOM focus (click, Tab) to the container, to a descendant or
\* out of the cell.
UserFocus ==
  /\ Idle
  /\ \E el \in ({Container, Outside} \cup Kids) \ {active} :
       Commit(Focus(Cur("UserFocus"), el))
  /\ trigger' = Met("UserFocus")
  /\ UNCHANGED << mounted, nKids, containerTab, focusedCell, index,
                  headerIsInteractive, setFocusedCell, effect2Pending >>
  /\ UNCHANGED renderVars

\* A keyup whose target is inside the cell bubbles to the container.
KeyUp(key) ==
  /\ Idle
  /\ active # Outside
  /\ Commit(RunKeyUp(Cur(key), ListenersOf(Cur(key), "keyup"), key))
  /\ trigger' = Met(key)
  /\ UNCHANGED << mounted, nKids, containerTab, focusedCell, index,
                  headerIsInteractive, setFocusedCell, effect2Pending >>
  /\ UNCHANGED renderVars

\* The callback of line 152 fires.
FrameBlur ==
  /\ Settled
  /\ frames # << >>
  /\ Head(frames).kind = "blur"
  /\ LET s0 == [Cur("FrameBlur") EXCEPT !.frames = Tail(@)]
     IN  IF Head(frames).ref
         THEN Commit(Blur(s0, Container))
         ELSE Commit([s0 EXCEPT !.out.threw = TRUE])
  /\ trigger' = Met("FrameBlur")
  /\ UNCHANGED << mounted, nKids, containerTab, focusedCell, index,
                  headerIsInteractive, setFocusedCell, effect2Pending >>
  /\ UNCHANGED renderVars

\* The callback of lines 164-170 fires.
FrameCheck ==
  /\ Settled
  /\ frames # << >>
  /\ Head(frames).kind = "check"
  /\ LET s0 == [Cur("FrameCheck") EXCEPT !.frames = Tail(@)]
     IN  IF Head(frames).ref
         THEN IF s0.active = Outside
              THEN Commit(SetIsCellEntered(s0, FALSE))
              ELSE Commit(s0)
         ELSE Commit(s0)
  /\ trigger' = Met("FrameCheck")
  /\ UNCHANGED << mounted, nKids, containerTab, focusedCell, index,
                  headerIsInteractive, setFocusedCell, effect2Pending >>
  /\ UNCHANGED renderVars

\* The grid re-renders the cell with new props; the container's tabIndex
\* (line 221) is committed and the focus effect is due when one of its
\* dependencies (line 214) changed.
Rerender(fc, idx, hi, cb, ev) ==
  /\ Idle
  /\ << fc, idx, hi, cb >> # << focusedCell, index, headerIsInteractive, setFocusedCell >>
  /\ focusedCell' = fc
  /\ index' = idx
  /\ headerIsInteractive' = hi
  /\ setFocusedCell' = cb
  /\ containerTab' = RenderTabIndex(fc, idx)
  /\ effect2Pending' = (<< hi, IsFocusedFor(fc, idx), cb, idx >>
                          # << headerIsInteractive, IsFocused, setFocusedCell, index >>)
  /\ trigger' = Met(ev)
  /\ out' = NoOut(ev)
  /\ UNCHANGED << mounted, nKids, kidTab, kidManaged, active, isCellEntered,
                  effect1Pending, listeners, frames >>
  /\ UNCHANGED renderVars

GridSetFocusedCell ==
  \E fc \in FocusTargets :
    Rerender(fc, index, headerIsInteractive, setFocusedCell, "GridFocus")

GridSetIndex ==
  \E idx \in Cols :
    Rerender(focusedCell, idx, headerIsInteractive, setFocusedCell, "GridIndex")

GridSetInteractive ==
  Rerender(focusedCell, index, ~headerIsInteractive, setFocusedCell, "GridInteractive")

GridSetCallback ==
  \E cb \in Callbacks :
    Rerender(focusedCell, index, headerIsInteractive, cb, "GridCallback")

Next ==
  \/ Mount
  \/ Unmount
  \/ RunEffects
  \/ UserFocus
  \/ KeyUp("ENTER")
  \/ KeyUp("ESCAPE")
  \/ KeyUp("F2")
  \/ FrameBlur
  \/ FrameCheck
  \/ GridSetFocusedCell
  \/ GridSetIndex
  \/ GridSetInteractive
  \/ GridSetCallback

Spec == Init /\ [][Next]_vars

TypeOK ==
  /\ mounted \in BOOLEAN
  /\ nKids \in 0 .. MaxKids
  /\ active \in {Outside, Container} \cup Kids
  /\ containerTab \in {Reachable, Unreachable}
  /\ \A i \in Kids : kidTab[i] \in {Reachable, Unreachable}

\* ------------------------------------------------------------ observations

\* Number of elements of the cell's subtree with tab order 0.
TabStops ==
  (IF containerTab = Reachable THEN 1 ELSE 0)
    + Cardinality({i \in Kids : kidTab[i] = Reachable})

AllKidsUnreachable == \A i \in Kids : kidTab[i] = Unreachable

\* ------------------------------------------------------------------ claims

C1_WitnessTwoStops ==
  mounted /\ Settled /\ IsFocused /\ isCellEntered /\ nKids = 1 /\ TabStops = 2

\* C2 (as stated): when an Enter keyup was handled while the container held
\* DOM focus and the cell has exactly one interactive descendant, then in the
\* settled state that follows the cell is in CONTENT mode, DOM focus is on
\* that descendant and its tab order is 0.
C2_EnterMovesFocusToDescendant ==
  (mounted /\ Settled /\ trigger.ev = "ENTER" /\ trigger.active = Container /\ nKids = 1) =>
    (isCellEntered /\ active = 1 /\ kidTab[1] = Reachable)

\* C3: when an Escape keyup was handled in CONTENT mode, then in the settled
\* state that follows the cell is in CELL mode, DOM focus is on the container
\* and every interactive descendant has tab order -1.
C3_EscapeLeavesContent ==
  (mounted /\ Settled /\ trigger.ev = "ESCAPE" /\ trigger.entered) =>
    (~isCellEntered /\ active = Container /\ AllKidsUnreachable)

C3_Witness ==
  /\ mounted /\ Settled /\ trigger.ev = "ESCAPE" /\ trigger.entered
  /\ trigger.active \in Kids /\ nKids = 2 /\ active = Container /\ ~isCellEntered

\* C4 (as stated): an F2 keyup in CELL mode with DOM focus on the container
\* leads to CONTENT mode with focus on the first interactive descendant, and an
\* F2 keyup in CONTENT mode leads to CELL mode with focus on the container.
C4_F2Toggles ==
  (mounted /\ Settled /\ trigger.ev = "F2") =>
    IF trigger.entered
    THEN ~isCellEntered /\ active = Container
    ELSE trigger.active = Container =>
           (isCellEntered /\ (nKids > 0 => active = 1))

\* C5 (as stated): a focusin on a non-interactive header issues no
\* setFocusedCell request, and once the blur scheduled for the next animation
\* frame has been performed on the mounted cell (and no callback is left
\* waiting) DOM focus is not inside the cell.
C5_FocusBouncedBack ==
  /\ (mounted /\ ~headerIsInteractive /\ out.step = "UserFocus") => out.requests = << >>
  /\ (mounted /\ ~headerIsInteractive /\ out.step = "FrameBlur" /\ ~out.threw
        /\ frames = << >>) => active = Outside

\* C6 (as stated): while headerIsInteractive is not false every focusin inside
\* the cell issues exactly one setFocusedCell request.
C6_EveryFocusInRequests ==
  (mounted /\ headerIsInteractive) => Len(out.requests) = out.focusIns

\* C6 (amended): while headerIsInteractive is not false every focusin handled
\* by the cell's focusin listener issues exactly one request, through the
\* current setFocusedCell and for (index, -1) with the current index; no other
\* request is ever issued, and a step that only handles focus events changes
\* neither the mode nor the logical focus target. (The focusin of the
\* container.focus() made by the focus effect itself is dispatched while no
\* listener is registered, and issues none.)
C6_HandledFocusInRequestsThisCell ==
  [][ /\ \A k \in 1 .. Len(out'.requests) :
           /\ out'.requests[k].cell = << index', HeaderRow >>
           /\ out'.requests[k].cb = setFocusedCell'
      /\ Len(out'.requests) = (IF headerIsInteractive' THEN out'.handled ELSE 0)
      /\ out'.step = "UserFocus" =>
           (isCellEntered' = isCellEntered /\ focusedCell' = focusedCell)
    ]_vars

C6_Witness ==
  /\ mounted /\ headerIsInteractive /\ out.step = "UserFocus"
  /\ out.focusIns = 1 /\ Len(out.requests) = 1 /\ active \in Kids

BecameFocused ==
  /\ trigger.ev \in {"Mount", "GridFocus", "GridIndex"}
  /\ ~trigger.focused /\ IsFocused

LostFocus ==
  /\ trigger.ev \in {"GridFocus", "GridIndex"}
  /\ trigger.focused /\ ~IsFocused

\* C7: when the logical focus target has become this cell while the cell was
\* in CELL mode, then in the settled state that follows: with exactly one
\* interactive descendant the cell is in CONTENT mode and that descendant has
\* DOM focus; with none or several the cell is in CELL mode and the container
\* has DOM focus.
C7_FocusGain ==
  (mounted /\ Settled /\ BecameFocused /\ ~trigger.entered) =>
    IF nKids = 1
    THEN isCellEntered /\ active = 1
    ELSE ~isCellEntered /\ active = Container

C7_WitnessOne ==
  mounted /\ Settled /\ BecameFocused /\ trigger.ev = "GridFocus" /\ nKids = 1 /\ active = 1

C7_WitnessMany ==
  /\ mounted /\ Settled /\ BecameFocused /\ trigger.ev = "GridFocus" /\ nKids = 2
  /\ trigger.active = Outside /\ active = Container

\* C8: when the logical focus target has changed from this cell to another
\* cell or to nothing, then in the settled state that follows the cell is in
\* CELL mode and every interactive descendant has tab order -1.
C8_FocusLossResets ==
  (mounted /\ Settled /\ LostFocus) => (~isCellEntered /\ AllKidsUnreachable)

C8_Witness ==
  mounted /\ Settled /\ LostFocus /\ trigger.entered /\ nKids >= 1 /\ ~isCellEntered

\* C9: a step that only handles focus events (focusout, focusin) leaves the
\* mode as it is; the callback scheduled by focusout, when it fires for a
\* mounted cell, sets the mode to CELL if the active element is outside the
\* cell at that moment and leaves the mode as it is otherwise.
C9_FocusLossDecidedAtFrame ==
  [][ /\ out'.step = "UserFocus" => isCellEntered' = isCellEntered
      /\ (out'.step = "FrameCheck" /\ Head(frames).ref) =>
           isCellEntered' = (IF active = Outside THEN FALSE ELSE isCellEntered)
    ]_vars

C9_Witness ==
  mounted /\ out.step = "FrameCheck" /\ isCellEntered /\ active = Container /\ trigger.active = Container

\* C10 (as stated): every step that takes the cell from CELL to CONTENT mode
\* happens with exactly one tab-managed descendant or is the handling of an
\* Enter keyup.
C10_EnterIsTheOnlyException ==
  [][ (mounted /\ ~isCellEntered /\ isCellEntered') =>
        (Cardinality({i \in Kids : kidManaged'[i]}) = 1 \/ trigger'.ev = "ENTER")
    ]_vars

\* C10 (amended): every step that takes the cell from CELL to CONTENT mode
\* happens with exactly one tab-managed descendant or is the handling of an
\* Enter or F2 keyup; a logical focus gain, a focusin and a focusout never put
\* a cell with zero or several interactive descendants in CONTENT mode.
C10_OnlyKeysEnterWithoutOneDescendant ==
  [][ (mounted /\ ~isCellEntered /\ isCellEntered') =>
        \/ Cardinality({i \in Kids : kidManaged'[i]}) = 1
        \/ (out'.step \in {"ENTER", "F2"} /\ trigger'.ev = out'.step)
    ]_vars

C10_Witness ==
  mounted /\ isCellEntered /\ out.step = "F2" /\ nKids = 2

\* ------------------------------------------- the render of the aria props

\* A cell about to render with any sorting and column id, as the logical focus
\* target or not; the focus machine is left before its first mount.
AriaInit ==
  /\ mounted = FALSE
  /\ nKids = 0
  /\ kidTab = << >>
  /\ kidManaged = << >>
  /\ containerTab = Unreachable
  /\ active = Outside
  /\ isCellEntered = FALSE
  /\ index = 0
  /\ focusedCell \in {NoCell, << 0, HeaderRow >>, << 0, 0 >>}
  /\ headerIsInteractive = TRUE
  /\ setFocusedCell = 0
  /\ effect1Pending = FALSE
  /\ effect2Pending = FALSE
  /\ listeners = {}
  /\ frames = << >>
  /\ trigger = [ev |-> "Init", entered |-> FALSE, active |-> Outside, focused |-> FALSE]
  /\ out = NoOut("Init")
  /\ columnId \in ColumnIds
  /\ sorting \in Sortings
  /\ rendered = FALSE
  /\ ariaProps = NoAria
  /\ screenReader = << >>

\* The function body up to the returned JSX, lines 48-77 and 216-239, for the
\* props srt; htmlIdGenerator()() may return any id.
RenderAria(srt) ==
  \E newId \in HtmlIds :
    /\ sorting' = srt
    /\ rendered' = TRUE
    /\ ariaProps' = AriaProps(srt, columnId, newId)
    /\ screenReader' = ScreenReaderOnly(srt, columnId, newId)
    /\ UNCHANGED << mounted, nKids, kidTab, kidManaged, containerTab, active,
                    isCellEntered, focusedCell, index, headerIsInteractive,
                    setFocusedCell, effect1Pending, effect2Pending, listeners,
                    frames, trigger, out, columnId >>

FirstRender == ~rendered /\ RenderAria(sorting)

GridSetSorting == rendered /\ \E srt \in Sortings \ {sorting} : RenderAria(srt)

AriaNext ==
  \/ FirstRender
  \/ GridSetSorting

SpecAria == AriaInit /\ [][AriaNext]_vars

ThisColumnOnly ==
  sorting.present /\ Len(sorting.columns) = 1 /\ sorting.columns[1].id = columnId

\* C11: the rendered container exposes aria-sort exactly when sorting is
\* present, has exactly one column and that column is this one; its value is
\* ascending for asc, descending for desc and other for any other direction;
\* this is so whether or not the cell is the logical focus target, and
\* aria-sort is never exposed together with aria-describedby.
C11_AriaSort ==
  rendered =>
    /\ ("aria-sort" \in DOMAIN ariaProps) <=> ThisColumnOnly
    /\ ThisColumnOnly =>
         ariaProps["aria-sort"] =
           (CASE sorting.columns[1].direction = "asc" -> "ascending"
              [] sorting.columns[1].direction = "desc" -> "descending"
              [] OTHER -> "other")
    /\ ~({"aria-sort", "aria-describedby"} \subseteq DOMAIN ariaProps)

C11_Witness ==
  /\ rendered /\ ~IsFocused /\ ThisColumnOnly
  /\ sorting.columns[1].direction = "custom" /\ ariaProps["aria-sort"] = "other"

AmongSeveral ==
  /\ sorting.present /\ Len(sorting.columns) >= 2
  /\ \E k \in 1 .. Len(sorting.columns) : sorting.columns[k].id = columnId

\* The summary text of a sort sequence, phrase by phrase.
RECURSIVE Summary(_, _)
Summary(cols, k) ==
  IF k > Len(cols) THEN ""
  ELSE (IF k > 1 THEN " then " ELSE "")
         \o "Sorted by " \o cols[k].id \o " " \o cols[k].direction
         \o Summary(cols, k + 1)

\* C12 (as stated): the rendered container exposes aria-describedby exactly
\* when the sort sequence has two or more entries and this column is among
\* them; then the id it names is that of an off-screen element of the cell
\* whose text is the summary of the whole sequence; and a cell that does not
\* expose aria-describedby renders no such element.
C12_DescribedBy ==
  rendered =>
    /\ ("aria-describedby" \in DOMAIN ariaProps) <=> AmongSeveral
    /\ AmongSeveral =>
         \E k \in 1 .. Len(screenReader) :
           /\ screenReader[k].id = ariaProps["aria-describedby"]
           /\ screenReader[k].text = Summary(sorting.columns, 1)
    /\ ~AmongSeveral => screenReader = << >>

\* ---------------------------------------------------- the mode effect's runs

\* The step runs the [isCellEntered] effect for CONTENT mode (enableInteractives).
EnableStep == mounted /\ effect1Pending /\ isCellEntered /\ out'.step = "RunEffects"

\* The step runs the [isCellEntered] effect for CELL mode (disableInteractives).
DisableStep == mounted /\ effect1Pending /\ ~isCellEntered /\ out'.step = "RunEffects"

\* C13: in every settled state, in CELL mode every interactive descendant is
\* tab-managed with tab order -1 and in CONTENT mode every tab-managed
\* descendant has tab order 0; and the run of the mode effect that enters
\* CONTENT mode leaves DOM focus on the first descendant in document order
\* when there is one.
C13_SettledByMode ==
  [][ /\ (mounted' /\ Settled') =>
           IF isCellEntered'
           THEN \A i \in 1 .. nKids' : kidManaged'[i] => kidTab'[i] = Reachable
           ELSE \A i \in 1 .. nKids' : kidManaged'[i] /\ kidTab'[i] = Unreachable
      /\ (EnableStep /\ nKids > 0) => active' = 1
    ]_vars

C13_Witness ==
  /\ mounted /\ Settled /\ isCellEntered /\ nKids = 2 /\ active = 1
  /\ out.step = "RunEffects" /\ trigger.ev = "ENTER" /\ trigger.active = Container

\* C14: a run of disableInteractives leaves every descendant that was
\* focusable tab-managed with tab order -1, whatever their number; the step
\* warns exactly when more than one was found, no other step warns, and the
\* run itself does not change the mode.
C14_DisableAllAndWarn ==
  [][ /\ DisableStep =>
           /\ \A i \in Kids : kidTab[i] >= 0 => (kidManaged'[i] /\ kidTab'[i] = Unreachable)
           /\ \A i \in Kids : kidTab'[i] = Unreachable
           /\ out'.warned = (IF Cardinality({i \in Kids : kidTab[i] >= 0}) > 1 THEN 1 ELSE 0)
           /\ ~effect2Pending => isCellEntered' = isCellEntered
      /\ ~DisableStep => out'.warned = 0
    ]_vars

C14_Witness ==
  /\ mounted /\ out.step = "RunEffects" /\ out.warned = 1 /\ nKids = 2
  /\ trigger.ev = "ESCAPE" /\ AllKidsUnreachable /\ ~isCellEntered

\* ------------------------------------ the two tab-order operations by themselves

\* What a descendant of the container can be: natively tabbable, natively out
\* of the tab order, or marked by an earlier disableInteractives and then at
\* the tab order the last operation gave to every marked descendant.
KidStates == [tab : {Reachable, Unreachable}, managed : BOOLEAN]

\* A mounted focused cell with any such descendants, DOM focus anywhere, in
\* either mode; no effect is due and no frame callback is waiting.
DomInit ==
  /\ mounted = TRUE
  /\ \E n \in 0 .. MaxKids : \E ks \in [1 .. n -> KidStates] :
       /\ \A i, j \in 1 .. n : (ks[i].managed /\ ks[j].managed) => ks[i].tab = ks[j].tab
       /\ nKids = n
       /\ kidTab = [i \in 1 .. n |-> ks[i].tab]
       /\ kidManaged = [i \in 1 .. n |-> ks[i].managed]
  /\ active \in {Outside, Container} \cup (1 .. nKids)
  /\ isCellEntered \in BOOLEAN
  /\ index = 0
  /\ focusedCell = << 0, HeaderRow >>
  /\ containerTab = RenderTabIndex(focusedCell, index)
  /\ headerIsInteractive = TRUE
  /\ setFocusedCell = 0
  /\ effect1Pending = FALSE
  /\ effect2Pending = FALSE
  /\ listeners = {[type |-> t, index |-> 0, hi |-> TRUE, cb |-> 0] :
                    t \in {"focusin", "focusout", "keyup"}}
  /\ frames = << >>
  /\ trigger = [ev |-> "Init", entered |-> isCellEntered, active |-> active, focused |-> TRUE]
  /\ out = NoOut("Init")
  /\ NoRender

\* The event recorded for a call of an operation says whether the step before
\* was a call of the same operation.
DomEvent(step) == Met(IF out.step = step THEN step \o "Again" ELSE step)

\* One call of disableInteractives on the container.
ApplyDisable ==
  /\ Commit(DisableInteractives(Cur("Disable")))
  /\ trigger' = DomEvent("Disable")
  /\ UNCHANGED << mounted, nKids, containerTab, focusedCell, index, headerIsInteractive,
                  setFocusedCell, effect2Pending >>
  /\ UNCHANGED renderVars

\* One call of enableInteractives on the container.
ApplyEnable ==
  /\ Commit(EnableInteractives(Cur("Enable")))
  /\ trigger' = DomEvent("Enable")
  /\ UNCHANGED << mounted, nKids, containerTab, focusedCell, index, headerIsInteractive,
                  setFocusedCell, effect2Pending >>
  /\ UNCHANGED renderVars

DomNext ==
  \/ ApplyDisable
  \/ ApplyEnable

SpecDom == DomInit /\ [][DomNext]_vars

\* C15: a second call of disableInteractives right after the first changes no
\* descendant's tab order or mark, the same for enableInteractives, and neither
\* operation changes anything but the descendants' tab order and mark.
C15_Idempotent ==
  [][ /\ (out.step = "Disable" /\ out'.step = "Disable") =>
           (kidTab' = kidTab /\ kidManaged' = kidManaged)
      /\ (out.step = "Enable" /\ out'.step = "Enable") =>
           (kidTab' = kidTab /\ kidManaged' = kidManaged)
      /\ UNCHANGED << mounted, nKids, containerTab, active, isCellEntered, focusedCell,
                      index, headerIsInteractive, setFocusedCell, effect1Pending,
                      effect2Pending, listeners, frames >>
    ]_vars

C15_Witness ==
  /\ out.step = "Disable" /\ trigger.ev = "DisableAgain"
  /\ nKids = 2 /\ \A i \in Kids : kidManaged[i] /\ kidTab[i] = Unreachable

StaleFrameStep ==
  /\ frames # << >>
  /\ ~Head(frames).ref
  /\ out'.step \in {"FrameBlur", "FrameCheck"}

\* C17: a frame callback that fires after its cell unmounted, the focus-loss
\* check as well as the forced blur, performs no action, raises no error and
\* changes no state.
C17_StaleCallbacksDoNothing ==
  [][ StaleFrameStep =>
        /\ ~out'.threw
        /\ out'.requests = << >>
        /\ UNCHANGED << mounted, nKids, kidTab, kidManaged, containerTab, active,
                        isCellEntered, effect1Pending, effect2Pending, listeners >>
    ]_vars

\* ------------------------------------------------------------- the listeners

ListenerTypes == {"focusin", "focusout", "keyup"}

\* The three handlers an effect run creates under the current props.
CurrentListeners ==
  {[type |-> t, index |-> index, hi |-> headerIsInteractive, cb |-> setFocusedCell] :
     t \in ListenerTypes}

\* C18: the container never has more than one listener of a type; in every
\* settled state of a mounted cell the listeners are the three of the latest
\* effect run, capturing the current index, headerIsInteractive and
\* setFocusedCell; none remain after unmount.
C18_ListenersSymmetric ==
  /\ \A t \in ListenerTypes : Cardinality({l \in listeners : l.type = t}) <= 1
  /\ (mounted /\ Settled) => listeners = CurrentListeners
  /\ ~mounted => listeners = {}

C18_Witness ==
  /\ mounted /\ Settled /\ out.step = "RunEffects"
  /\ trigger.ev \in {"GridIndex", "GridInteractive", "GridCallback"}
  /\ listeners = CurrentListeners /\ headerIsInteractive = FALSE /\ setFocusedCell = 1

\* C19: in every settled state a cell in CONTENT mode is the logical focus
\* target.
C19_ContentOnlyWhileFocused ==
  (mounted /\ Settled /\ isCellEntered) => IsFocused

\* C20: after the focus effect re-ran because headerIsInteractive, index or
\* setFocusedCell changed while the cell stayed, or stayed not, the logical
\* focus target, the mode and the element holding DOM focus are what they were
\* before the change.
C20_DependencyChangeKeepsModeAndFocus ==
  ( /\ mounted /\ Settled
    /\ trigger.ev \in {"GridIndex", "GridInteractive", "GridCallback"}
    /\ trigger.focused = IsFocused )
  => (isCellEntered = trigger.entered /\ active = trigger.active)

====
